---------------------------- MODULE Spec2Model ----------------------------
(***************************************************************************)
(* buildThread (src/unnamed/part_000): a flat list of annotation records   *)
(* is threaded into a tree (threadAnnotations / setParent / hasPathToRoot) *)
(* and then projected (selection, thread filter, visibility, pruning, UI   *)
(* state, sorting, reply counts and depth).                                *)
(*                                                                         *)
(* A JavaScript object reference to a Thread is modelled by the key under  *)
(* which the object is stored in the `threads` map; `undefined` strings    *)
(* are modelled by "" and an undefined annotation by the index 0.          *)
(* Identifiers are ordinary non-empty strings that are neither integer     *)
(* like nor names of Object.prototype properties.                          *)
(***************************************************************************)
EXTENDS Integers, Sequences, FiniteSets, TLC

VARIABLES annotations, opts, threads, order, thread, pc

vars == <<annotations, opts, threads, order, thread, pc>>

\* ------------------------------------------------------------------ bounds

MaxAnnotations == 3

MaxRefs == 2

\* ------------------------------------------------------------ small helpers

Undefined == ""

NoAnnotation == 0

Range(s) == {s[i] : i \in 1..Len(s)}

\* Array.prototype.indexOf(x) !== -1
Includes(s, x) == \E i \in 1..Len(s) : s[i] = x

\* ------------------------------------------------------------- tree builder

DEFAULT_THREAD_STATE ==
  [id |-> "__default__", annotation |-> NoAnnotation, parent |-> Undefined,
   collapsed |-> FALSE, visible |-> TRUE, totalChildren |-> 0,
   highlightState |-> Undefined]

\* annotation.id || annotation.$tag
annotationId(annotation) ==
  IF annotation.id # Undefined THEN annotation.id ELSE annotation.tag

\* hasPathToRoot with the result at the top of the tree inverted.
RECURSIVE hasPathToRootInverted(_, _, _, _)
hasPathToRootInverted(ths, id, ancestorId, seen) ==
  IF ancestorId \in seen THEN "overflow"
  ELSE IF ancestorId \notin DOMAIN ths \/ ths[ancestorId].parent = id
       THEN "false"
  ELSE IF ths[ancestorId].parent = Undefined THEN "false"
  ELSE hasPathToRootInverted(ths, id, ths[ancestorId].parent, seen \cup {ancestorId})

\* The ancestor walk.  `seen` holds the ancestor ids of the calls already on
\* the stack: the map does not change during the walk, so a call whose
\* ancestorId was seen before repeats for ever and the recursion exhausts the
\* call stack ("overflow": RangeError).
RECURSIVE hasPathToRoot(_, _, _, _)
hasPathToRoot(ths, id, ancestorId, seen) ==
  IF ancestorId \in seen THEN "overflow"
  ELSE IF ancestorId \notin DOMAIN ths \/ ths[ancestorId].parent = id
       THEN "false"
  ELSE IF ths[ancestorId].parent = Undefined THEN "true"
  ELSE hasPathToRoot(ths, id, ths[ancestorId].parent, seen \cup {ancestorId})

\* The new thread object that setParent stores for a missing parent.
Placeholder == DEFAULT_THREAD_STATE @@ [children |-> <<>>]

\* st = [threads, order, err]: the map, its property order and whether a
\* RangeError was raised.
RECURSIVE setParent(_, _, _)
setParent(st, id, parents) ==
  IF st.err THEN st
  ELSE IF st.threads[id].parent # Undefined \/ Len(parents) = 0 THEN st
  ELSE
    LET parentId == parents[Len(parents)]
        st1 == IF parentId \notin DOMAIN st.threads
               THEN setParent([threads |-> st.threads @@ (parentId :> Placeholder),
                               order |-> Append(st.order, parentId),
                               err |-> FALSE],
                              parentId, SubSeq(parents, 1, Len(parents) - 1))
               ELSE st
    IN IF st1.err THEN st1
       ELSE LET path == hasPathToRoot(st1.threads, id, parentId, {})
                linked == [st1.threads EXCEPT ![id].parent = parentId]
            IN CASE path = "overflow" -> [st1 EXCEPT !.err = TRUE]
                 [] path = "true" ->
                      [st1 EXCEPT !.threads =
                         [linked EXCEPT ![parentId].children = Append(@, id)]]
                 [] OTHER -> st1

\* CreateThreads listing the key of a repeated id once per record.
RECURSIVE CreateThreadsRepeatKey(_, _)
CreateThreadsRepeatKey(st, i) ==
  IF i > Len(annotations) THEN st
  ELSE LET id == annotationId(annotations[i])
           node == [DEFAULT_THREAD_STATE EXCEPT !.annotation = i, !.id = id]
                     @@ [children |-> <<>>]
       IN CreateThreadsRepeatKey(
            [threads |-> IF id \in DOMAIN st.threads
                         THEN [st.threads EXCEPT ![id] = node]
                         ELSE st.threads @@ (id :> node),
             order |-> Append(st.order, id),
             err |-> FALSE], i + 1)

\* First loop of threadAnnotations: one Thread per record, a later record
\* with the same id replacing the earlier object under the same property.
RECURSIVE CreateThreads(_, _)
CreateThreads(st, i) ==
  IF i > Len(annotations) THEN st
  ELSE LET id == annotationId(annotations[i])
           node == [DEFAULT_THREAD_STATE EXCEPT !.annotation = i, !.id = id]
                     @@ [children |-> <<>>]
       IN CreateThreads(
            [threads |-> IF id \in DOMAIN st.threads
                         THEN [st.threads EXCEPT ![id] = node]
                         ELSE st.threads @@ (id :> node),
             order |-> IF id \in DOMAIN st.threads THEN st.order
                       ELSE Append(st.order, id),
             err |-> FALSE], i + 1)

\* Second loop of threadAnnotations.
RECURSIVE LinkThreads(_, _)
LinkThreads(st, i) ==
  IF i > Len(annotations) \/ st.err THEN st
  ELSE LinkThreads(setParent(st, annotationId(annotations[i]),
                             annotations[i].references), i + 1)

EmptyState == [threads |-> << >>, order |-> <<>>, err |-> FALSE]

Linked == LinkThreads(CreateThreads(EmptyState, 1), 1)

\* for (const rootThreadId in threads) if (!threads[rootThreadId].parent)
RootThreadIds(st) == SelectSeq(st.order, LAMBDA k : st.threads[k].parent = Undefined)

Collapsed(st) ==
  [k \in DOMAIN st.threads |->
     IF st.threads[k].parent = Undefined
     THEN [st.threads[k] EXCEPT !.collapsed = TRUE] ELSE st.threads[k]]

\* The object graph below the Thread stored under key k, as a value.
RECURSIVE Nest(_, _)
Nest(ths, k) ==
  [key |-> k] @@
  [ths[k] EXCEPT !.children = [i \in 1..Len(ths[k].children) |-> Nest(ths, ths[k].children[i])]]

rootThread(ths, rootThreads) ==
  [key |-> "root"] @@
  [DEFAULT_THREAD_STATE EXCEPT !.id = "root", !.totalChildren = Len(rootThreads)]
  @@ [children |-> [i \in 1..Len(rootThreads) |-> Nest(ths, rootThreads[i])]]

\* ---------------------------------------------------------------- projector

defaultOpts ==
  [selected |-> <<>>, expanded |-> << >>, highlighted |-> <<>>,
   sortCompareFn |-> "byId", replySortCompareFn |-> "byCreated",
   forceVisible |-> <<>>, filterFn |-> Undefined, threadFilterFn |-> Undefined]

\* The ids that occur as `annotation.id`, in the order of JavaScript's `<`
\* on strings.
IdOrder == <<"__default__", "a", "b", "c">>

Rank(s) == CHOOSE i \in 1..Len(IdOrder) : IdOrder[i] = s

\* The less-than comparisons over annotations: the two defaults, and
\* "newest" as a comparison a caller configures.  `undefined < x` and
\* `x < undefined` are false.
Less(fn, a, b) ==
  CASE fn = "byId" -> a.id # Undefined /\ b.id # Undefined /\ Rank(a.id) < Rank(b.id)
    [] fn = "byCreated" -> a.created < b.created
    [] fn = "newest" -> b.created < a.created

\* The item-level predicates a caller configures.
FilterAccepts(fn, a) ==
  CASE fn = "onlyB" -> annotationId(a) = "b"
    [] fn = "nothing" -> FALSE

\* The thread-level predicates a caller configures.
ThreadFilterAccepts(fn, t) ==
  CASE fn = "annotated" -> t.annotation # NoAnnotation

\* isVisible asking the item filter before the forced-visible list.
isVisibleFilterFirst(t) ==
  IF ~t.visible \/ t.annotation = NoAnnotation THEN FALSE
  ELSE IF opts.filterFn # Undefined
          /\ ~FilterAccepts(opts.filterFn, annotations[t.annotation])
       THEN FALSE
  ELSE TRUE

isVisible(t) ==
  IF ~t.visible \/ t.annotation = NoAnnotation THEN FALSE
  ELSE IF Len(opts.forceVisible) > 0
          /\ Includes(opts.forceVisible, annotationId(annotations[t.annotation]))
       THEN TRUE
  ELSE IF opts.filterFn # Undefined
          /\ ~FilterAccepts(opts.filterFn, annotations[t.annotation])
       THEN FALSE
  ELSE TRUE

\* mapThread with the visibility mapFn
RECURSIVE mapVisible(_)
mapVisible(t) ==
  [t EXCEPT !.visible = isVisible(t),
            !.children = [i \in 1..Len(t.children) |-> mapVisible(t.children[i])]]

RECURSIVE hasVisibleChildren(_)
hasVisibleChildren(t) ==
  \E i \in 1..Len(t.children) :
     t.children[i].visible \/ hasVisibleChildren(t.children[i])

\* threadStates taking the expansion entry as the collapsed flag.
threadStatesNotNegated(t) ==
  [collapsed |->
     IF t.id \in DOMAIN opts.expanded THEN opts.expanded[t.id]
     ELSE t.collapsed /\ ~(opts.filterFn # Undefined /\ hasVisibleChildren(t)),
   highlightState |->
     IF Len(opts.highlighted) > 0
     THEN IF t.annotation # NoAnnotation /\ Includes(opts.highlighted, t.id)
          THEN "highlight" ELSE "dim"
     ELSE t.highlightState]

threadStates(t) ==
  [collapsed |->
     IF t.id \in DOMAIN opts.expanded THEN ~opts.expanded[t.id]
     ELSE t.collapsed /\ ~(opts.filterFn # Undefined /\ hasVisibleChildren(t)),
   highlightState |->
     IF Len(opts.highlighted) > 0
     THEN IF t.annotation # NoAnnotation /\ Includes(opts.highlighted, t.id)
          THEN "highlight" ELSE "dim"
     ELSE t.highlightState]

\* mapThread with the UI state mapFn
RECURSIVE mapStates(_)
mapStates(t) ==
  [t EXCEPT !.collapsed = threadStates(t).collapsed,
            !.highlightState = threadStates(t).highlightState,
            !.children = [i \in 1..Len(t.children) |-> mapStates(t.children[i])]]

\* The comparator that sort() hands to Array.prototype.sort
compare(a, b, compareFn) ==
  IF a.annotation = NoAnnotation \/ b.annotation = NoAnnotation
  THEN IF a.annotation = NoAnnotation /\ b.annotation = NoAnnotation THEN 0
       ELSE IF a.annotation = NoAnnotation THEN -1 ELSE 1
  ELSE IF Less(compareFn, annotations[a.annotation], annotations[b.annotation]) THEN -1
  ELSE IF Less(compareFn, annotations[b.annotation], annotations[a.annotation]) THEN 1
  ELSE 0

\* Array.prototype.sort: a consistent comparator (ECMAScript, 23.1.3.30)
\* yields the one stable ordering; otherwise the order is implementation
\* defined, any permutation.
Consistent(ts, compareFn) ==
  \A i, j, k \in 1..Len(ts) :
     LET c(x, y) == compare(ts[x], ts[y], compareFn)
     IN /\ c(i, i) = 0
        /\ (c(i, j) < 0) = (c(j, i) > 0)
        /\ (c(i, j) = 0 /\ c(j, k) = 0) => c(i, k) = 0
        /\ (c(i, j) < 0 /\ c(j, k) < 0) => c(i, k) < 0

RECURSIVE StableSort(_, _)
StableSort(ts, compareFn) ==
  IF Len(ts) = 0 THEN <<>>
  ELSE LET x == ts[Len(ts)]
           init == StableSort(SubSeq(ts, 1, Len(ts) - 1), compareFn)
           \* x goes behind every element that does not sort after it
           n == Cardinality({i \in 1..Len(init) : compare(init[i], x, compareFn) <= 0})
       IN SubSeq(init, 1, n) \o <<x>> \o SubSeq(init, n + 1, Len(init))

Orderings(ts) ==
  {[i \in 1..Len(ts) |-> ts[p[i]]] :
     p \in {q \in [1..Len(ts) -> 1..Len(ts)] : \A i, j \in 1..Len(ts) : q[i] = q[j] => i = j}}

\* The outcomes of sort(threads, compareFn)
sort(ts, compareFn) ==
  IF Consistent(ts, compareFn) THEN {StableSort(ts, compareFn)}
  ELSE Orderings(ts)

\* All sequences whose i-th element is drawn from sets[i]
RECURSIVE Product(_)
Product(sets) ==
  IF Len(sets) = 0 THEN {<<>>}
  ELSE {Append(p, x) : p \in Product(SubSeq(sets, 1, Len(sets) - 1)), x \in sets[Len(sets)]}

\* sortThread handing the top-level comparison down to the replies.
RECURSIVE sortThreadOneCompare(_, _, _)
sortThreadOneCompare(t, compareFn, replyCompareFn) ==
  UNION {{[t EXCEPT !.children = s] : s \in sort(children, compareFn)} :
           children \in Product([i \in 1..Len(t.children) |->
                         sortThreadOneCompare(t.children[i], compareFn, compareFn)])}

\* The outcomes of sortThread(thread, compareFn, replyCompareFn)
RECURSIVE sortThread(_, _, _)
sortThread(t, compareFn, replyCompareFn) ==
  UNION {{[t EXCEPT !.children = s] : s \in sort(children, compareFn)} :
           children \in Product([i \in 1..Len(t.children) |->
                         sortThread(t.children[i], replyCompareFn, replyCompareFn)])}

RECURSIVE Sum(_)
Sum(s) == IF Len(s) = 0 THEN 0 ELSE Head(s) + Sum(Tail(s))

\* countRepliesAndDepth counting the direct children only.
RECURSIVE countDirectReplies(_, _)
countDirectReplies(t, depth) ==
  LET children == [i \in 1..Len(t.children) |->
                     countDirectReplies(t.children[i], depth + 1)]
  IN [children |-> children, depth |-> depth, replyCount |-> Len(children)] @@ t

RECURSIVE countRepliesAndDepth(_, _)
countRepliesAndDepth(t, depth) ==
  LET children == [i \in 1..Len(t.children) |->
                     countRepliesAndDepth(t.children[i], depth + 1)]
      replyCount == Sum([i \in 1..Len(children) |-> 1 + children[i].replyCount])
  IN [children |-> children, depth |-> depth, replyCount |-> replyCount] @@ t

\* ------------------------------------------------------------------ actions

ThreadAnnotations ==
  /\ pc = "threadAnnotations"
  /\ ~Linked.err
  /\ threads' = Collapsed(Linked)
  /\ order' = Linked.order
  /\ thread' = rootThread(Collapsed(Linked), RootThreadIds(Linked))
  /\ pc' = "selected"
  /\ UNCHANGED <<annotations, opts>>

\* hasPathToRoot recursed without end: the call of buildThread ends with a
\* RangeError (stack exhausted).
ThreadAnnotationsOverflow ==
  /\ pc = "threadAnnotations"
  /\ Linked.err
  /\ threads' = Linked.threads
  /\ order' = Linked.order
  /\ pc' = "RangeError"
  /\ UNCHANGED <<annotations, opts, thread>>

FilterSelected ==
  /\ pc = "selected"
  /\ thread' = IF Len(opts.selected) > 0
                THEN [thread EXCEPT !.children =
                        SelectSeq(@, LAMBDA child : Includes(opts.selected, child.id))]
                ELSE thread
  /\ pc' = "threadFilter"
  /\ UNCHANGED <<annotations, opts, threads, order>>

FilterThreads ==
  /\ pc = "threadFilter"
  /\ thread' = IF opts.threadFilterFn # Undefined
                THEN [thread EXCEPT !.children =
                        SelectSeq(@, LAMBDA child : ThreadFilterAccepts(opts.threadFilterFn, child))]
                ELSE thread
  /\ pc' = "visible"
  /\ UNCHANGED <<annotations, opts, threads, order>>

SetVisible ==
  /\ pc = "visible"
  /\ thread' = mapVisible(thread)
  /\ pc' = "prune"
  /\ UNCHANGED <<annotations, opts, threads, order>>

PruneInvisible ==
  /\ pc = "prune"
  /\ thread' = [thread EXCEPT !.children =
                   SelectSeq(@, LAMBDA child : child.visible \/ hasVisibleChildren(child))]
  /\ pc' = "states"
  /\ UNCHANGED <<annotations, opts, threads, order>>

SetStates ==
  /\ pc = "states"
  /\ thread' = mapStates(thread)
  /\ pc' = "sort"
  /\ UNCHANGED <<annotations, opts, threads, order>>

SortThread ==
  /\ pc = "sort"
  /\ thread' \in sortThread(thread, opts.sortCompareFn, opts.replySortCompareFn)
  /\ pc' = "count"
  /\ UNCHANGED <<annotations, opts, threads, order>>

CountReplies ==
  /\ pc = "count"
  /\ thread' = countRepliesAndDepth(thread, -1)
  /\ pc' = "done"
  /\ UNCHANGED <<annotations, opts, threads, order>>

Next ==
  \/ ThreadAnnotations
  \/ ThreadAnnotationsOverflow
  \/ FilterSelected
  \/ FilterThreads
  \/ SetVisible
  \/ PruneInvisible
  \/ SetStates
  \/ SortThread
  \/ CountReplies

\* ------------------------------------------------------------------- inputs

\* All sequences over S of length at most n
RECURSIVE SeqsUpTo(_, _)
SeqsUpTo(S, n) ==
  IF n = 0 THEN {<<>>}
  ELSE SeqsUpTo(S, n - 1) \cup
       {Append(s, x) : s \in {t \in SeqsUpTo(S, n - 1) : Len(t) = n - 1}, x \in S}

Record(id, tag, references, created) ==
  [id |-> id, tag |-> tag, references |-> references, created |-> created]

\* Up to MaxAnnotations records, each a top-level annotation or a direct
\* reply: cycles of every length, self references, a missing parent and
\* repeated ids.
DirectRecords ==
  {Record(id, Undefined, refs, 1) :
     id \in {"a", "b", "c"}, refs \in {<<>>, <<"a">>, <<"b">>, <<"x">>}}

InitDirect ==
  /\ annotations \in SeqsUpTo(DirectRecords, MaxAnnotations)
  /\ opts = defaultOpts

\* One record with a reference chain of up to MaxRefs ids (missing
\* ancestors, repeated and own ids), alone or followed by a direct reply.
InitChain ==
  /\ annotations \in
       {<<Record("a", Undefined, refs, 1)>> \o rest :
          refs \in SeqsUpTo({"a", "b", "x", "y"}, MaxRefs),
          rest \in {<<>>} \cup {<<r>> : r \in DirectRecords}}
  /\ opts = defaultOpts

\* Three records with distinct ids, one of them possibly not yet saved (no
\* id, only a $tag), each top-level or a reply to the missing "x", under
\* every pair of comparisons.
SortPairs == {<<"byId", "byCreated">>, <<"newest", "byId">>, <<"byCreated", "newest">>}

InitSort ==
  /\ annotations \in
       {[i \in 1..3 |-> Record(ids[i], IF ids[i] = Undefined THEN "t" ELSE Undefined,
                                refs[i], created[i])] :
          ids \in {q \in [1..3 -> {"a", "b", "c", Undefined}] :
                     \A i, j \in 1..3 : q[i] = q[j] => i = j},
          refs \in [1..3 -> {<<>>, <<"x">>}],
          created \in [1..3 -> {1, 2}]}
  /\ opts \in {[defaultOpts EXCEPT !.sortCompareFn = sp[1], !.replySortCompareFn = sp[2]] :
                  sp \in SortPairs}

\* A thread of three records ("a", "b" and the unsaved "t") of varying
\* shape, under every combination of options.
ExpandedChoices ==
  {<< >>,
   ("a" :> TRUE) @@ ("t" :> FALSE),
   ("a" :> FALSE) @@ ("b" :> TRUE) @@ ("__default__" :> FALSE) @@ ("root" :> FALSE)}

InitProject ==
  /\ annotations \in
       {<<Record("a", Undefined, ra, 2), Record("b", Undefined, rb, 1),
          Record(Undefined, "t", rt, 2)>> :
          ra \in {<<>>, <<"x">>},
          rb \in {<<>>, <<"a">>, <<"x">>, <<"y">>},
          rt \in {<<"a">>, <<"a", "b">>}}
  /\ opts \in
       [selected : {<<>>, <<"a">>, <<"b", "t">>, <<"__default__">>},
        forceVisible : {<<>>, <<"a", "t">>},
        filterFn : {Undefined, "onlyB", "nothing"},
        threadFilterFn : {Undefined, "annotated"},
        expanded : ExpandedChoices,
        highlighted : {<<>>, <<"a">>},
        sortCompareFn : {sp[1] : sp \in SortPairs},
        replySortCompareFn : {"byCreated"}]

Init ==
  /\ InitDirect \/ InitChain \/ InitSort \/ InitProject
  /\ threads = << >>
  /\ order = <<>>
  /\ thread = Undefined
  /\ pc = "threadAnnotations"

Spec == Init /\ [][Next]_vars

\* ------------------------------------------------------------------- claims

\* The nodes of a forest (a sequence of threads), parents before children.
RECURSIVE Flatten(_)
Flatten(ts) ==
  IF Len(ts) = 0 THEN <<>>
  ELSE <<Head(ts)>> \o Flatten(Head(ts).children) \o Flatten(Tail(ts))

\* The nodes strictly below t, and t with them.
Descendants(t) == Flatten(t.children)

AllNodes(t) == <<t>> \o Descendants(t)

\* The keys reached from k by following `parent` links.
RECURSIVE Ancestors(_, _, _)
Ancestors(ths, k, fuel) ==
  IF fuel = 0 \/ ths[k].parent = Undefined THEN {}
  ELSE {ths[k].parent} \cup Ancestors(ths, ths[k].parent, fuel - 1)

StrictAncestors(k) == Ancestors(threads, k, Cardinality(DOMAIN threads))

Occurrences(ns, k) == Cardinality({i \in 1..Len(ns) : ns[i].key = k})

LastRef(i) == annotations[i].references[Len(annotations[i].references)]

HasRefs(i) == Len(annotations[i].references) > 0

\* C1: for every input list, cyclic, self-referring or dangling references
\* included, every ancestor walk ends and buildThread returns a root without
\* raising an error.
C1_NoError == pc # "RangeError"

\* C2: in the returned tree every non-root node is a child of exactly one
\* node (it occurs once below the root), and no node below the root is its
\* own ancestor by parent links.
C2_ReturnedTree ==
  pc = "done" =>
    LET ds == Descendants(thread)
    IN \A i \in 1..Len(ds) :
         /\ Occurrences(ds, ds[i].key) = 1
         /\ ds[i].key \notin StrictAncestors(ds[i].key)

\* A reply hangs two levels below the root while another record's link was
\* refused and left it without a parent.
C2_Witness ==
  /\ pc = "done"
  /\ \E n \in Range(Descendants(thread)) : n.depth >= 1
  /\ \E i \in 1..Len(annotations) :
       /\ HasRefs(i)
       /\ threads[annotationId(annotations[i])].parent = Undefined

\* C3: after threadAnnotations the whole node collection is a tree under the
\* synthetic root: no node is its own ancestor, and every node of the
\* collection is reached from the root through `children` exactly once.
C3_WholeCollection ==
  pc = "selected" =>
    \A k \in DOMAIN threads :
      /\ k \notin StrictAncestors(k)
      /\ Occurrences(Descendants(thread), k) = 1

\* C4 as stated: whenever the last reference of record A is the id of record
\* B, the node of A is among the children of the node of B after the build.
C4_ReplyUnderParent ==
  pc = "done" =>
    \A i, j \in 1..Len(annotations) :
      (HasRefs(i) /\ LastRef(i) = annotationId(annotations[j]))
        => Includes(threads[annotationId(annotations[j])].children,
                    annotationId(annotations[i]))

\* C4 as amended: whenever the last reference of record A is the id of record
\* B and no earlier record carries A's id, then after the build the node of A
\* is among the children of the node of B, unless the node of B is the node
\* of A or a descendant of it (the link would close a cycle).
C4_ReplyUnderParentUnlessCycle ==
  pc = "done" =>
    \A i, j \in 1..Len(annotations) :
      LET A == annotationId(annotations[i])
          B == annotationId(annotations[j])
      IN (/\ HasRefs(i) /\ LastRef(i) = B
          /\ \A h \in 1..(i - 1) : annotationId(annotations[h]) # A)
           => \/ Includes(threads[B].children, A)
              \/ A = B
              \/ A \in StrictAncestors(B)

\* A reply was linked under another record, and the link of a first record
\* of its id to a record below it was refused.
C4_Witness ==
  /\ pc = "done"
  /\ \E i, j \in 1..Len(annotations) :
       /\ i # j /\ HasRefs(i) /\ LastRef(i) = annotationId(annotations[j])
       /\ annotationId(annotations[i]) # annotationId(annotations[j])
       /\ Includes(threads[annotationId(annotations[j])].children,
                   annotationId(annotations[i]))
  /\ \E i, j \in 1..Len(annotations) :
       /\ HasRefs(i) /\ LastRef(i) = annotationId(annotations[j])
       /\ \A h \in 1..(i - 1) : annotationId(annotations[h]) # annotationId(annotations[i])
       /\ annotationId(annotations[i]) # annotationId(annotations[j])
       /\ ~Includes(threads[annotationId(annotations[j])].children,
                    annotationId(annotations[i]))

\* C5: a missing nearest ancestor m gets a placeholder node without an
\* annotation whose `id` field is m, and the `id` fields of all nodes of one
\* build are pairwise distinct.
C5_PlaceholderId ==
  pc = "done" =>
    /\ \A i \in 1..Len(annotations) :
         (HasRefs(i) /\ \A j \in 1..Len(annotations) : annotationId(annotations[j]) # LastRef(i))
           => /\ LastRef(i) \in DOMAIN threads
              /\ threads[LastRef(i)].annotation = NoAnnotation
              /\ threads[LastRef(i)].id = LastRef(i)
    /\ \A k1, k2 \in DOMAIN threads : threads[k1].id = threads[k2].id => k1 = k2

\* C6: in the returned tree a node without an annotation is not visible; a
\* node with an annotation whose id is in forceVisible is visible whatever
\* filterFn says; any other node with an annotation is visible exactly when
\* no filterFn is configured or filterFn accepts its annotation.
C6_Visibility ==
  pc = "done" =>
    \A n \in Range(AllNodes(thread)) :
      n.visible =
        IF n.annotation = NoAnnotation THEN FALSE
        ELSE IF Includes(opts.forceVisible, n.id) THEN TRUE
        ELSE \/ opts.filterFn = Undefined
             \/ FilterAccepts(opts.filterFn, annotations[n.annotation])

\* A forced-visible node that filterFn rejects is visible, next to a rejected
\* node that is not.
C6_Witness ==
  /\ pc = "done"
  /\ opts.filterFn # Undefined
  /\ \E n \in Range(AllNodes(thread)) :
       /\ n.annotation # NoAnnotation
       /\ Includes(opts.forceVisible, n.id)
       /\ ~FilterAccepts(opts.filterFn, annotations[n.annotation])
       /\ n.visible
  /\ \E n \in Range(AllNodes(thread)) : n.annotation # NoAnnotation /\ ~n.visible

\* C7: in the returned tree replyCount of every node is the number of nodes
\* strictly below it, the root has depth -1 and every child is one level
\* deeper than its parent.
C7_CountsAndDepth ==
  pc = "done" =>
    /\ thread.depth = -1
    /\ \A n \in Range(AllNodes(thread)) :
         /\ n.replyCount = Len(Descendants(n))
         /\ \A i \in 1..Len(n.children) : n.children[i].depth = n.depth + 1

\* A node below the root has a reply that has a reply of its own.
C7_Witness ==
  /\ pc = "done"
  /\ \E n \in Range(Descendants(thread)) :
       /\ n.replyCount >= 2
       /\ \E i \in 1..Len(n.children) : n.children[i].replyCount >= 1

\* The thread of the tree t that is stored under key k.
NodeByKey(t, k) == CHOOSE n \in Range(AllNodes(t)) : n.key = k

Position(ts, k) == CHOOSE i \in 1..Len(ts) : ts[i].key = k

LevelCompareFn(n) ==
  IF n.key = "root" THEN opts.sortCompareFn ELSE opts.replySortCompareFn

\* The children of `after` are those of `before` in sorted order: the
\* threads without annotation first, no annotated sibling behind one it is
\* less than, and equal siblings in their order from before the sort.
SortedLevel(before, after) ==
  LET s == after.children
      fn == LevelCompareFn(after)
  IN \A i, j \in 1..Len(s) :
       i < j =>
         /\ ~(s[i].annotation # NoAnnotation /\ s[j].annotation = NoAnnotation)
         /\ (s[i].annotation # NoAnnotation /\ s[j].annotation # NoAnnotation)
              => ~Less(fn, annotations[s[j].annotation], annotations[s[i].annotation])
         /\ (compare(s[i], s[j], fn) = 0 /\ compare(s[j], s[i], fn) = 0)
              => Position(before.children, s[i].key) < Position(before.children, s[j].key)

RawVisible(k) == mapVisible(Nest(threads, k))

\* C9: with a non-empty `selected` every child of the returned root has an id
\* in `selected`; with selected = [x] the root's children are at most the one
\* node with id x, and that node is there whenever it is a top-level node of
\* the raw tree, passes threadFilterFn and is visible or has a visible
\* descendant.
C9_SelectedOnly ==
  (pc = "done" /\ Len(opts.selected) > 0) =>
    /\ \A i \in 1..Len(thread.children) : Includes(opts.selected, thread.children[i].id)
    /\ Len(opts.selected) = 1 =>
         /\ Len(thread.children) <= 1
         /\ \A k \in DOMAIN threads :
              (/\ threads[k].id = opts.selected[1]
               /\ threads[k].parent = Undefined
               /\ opts.threadFilterFn # Undefined
                    => ThreadFilterAccepts(opts.threadFilterFn, threads[k])
               /\ RawVisible(k).visible \/ hasVisibleChildren(RawVisible(k)))
                => \E i \in 1..Len(thread.children) : thread.children[i].key = k

\* A thread is among the top-level threads of the raw tree: built collapsed.
BuiltCollapsed(n) == n.key # "root" /\ threads[n.key].parent = Undefined

\* C10: in the returned tree a node whose id has an entry in `expanded` is
\* collapsed exactly when the entry is false; any other node is open when a
\* filterFn is configured and it has a visible descendant, and otherwise
\* collapsed exactly when it was a top-level node of the raw tree.
C10_Collapsed ==
  pc = "done" =>
    \A n \in Range(AllNodes(thread)) :
      n.collapsed =
        IF n.id \in DOMAIN opts.expanded THEN ~opts.expanded[n.id]
        ELSE IF opts.filterFn # Undefined
                /\ \E d \in Range(Descendants(n)) : d.visible
             THEN FALSE
        ELSE BuiltCollapsed(n)

\* Under a filterFn one top-level thread is forced open by a visible reply,
\* a node is expanded by its entry and another collapsed by its entry.
C10_Witness ==
  /\ pc = "done"
  /\ opts.filterFn # Undefined
  /\ \E n \in Range(Descendants(thread)) :
       /\ n.id \notin DOMAIN opts.expanded
       /\ BuiltCollapsed(n)
       /\ \E d \in Range(Descendants(n)) : d.visible
       /\ ~n.collapsed
  /\ \E n \in Range(Descendants(thread)) :
       n.id \in DOMAIN opts.expanded /\ opts.expanded[n.id] /\ ~n.collapsed
  /\ \E n \in Range(Descendants(thread)) :
       n.id \in DOMAIN opts.expanded /\ ~opts.expanded[n.id] /\ n.collapsed

=============================================================================
